---------------------------- MODULE Spec2Model ----------------------------
(***************************************************************************)
(* A model of the FX risk aggregator: the FXOptionTrade schema             *)
(* (src/src/models.py), the Garman-Kohlhagen pricing engine with its       *)
(* currency normalisation (src/src/pricing.py), the portfolio aggregator   *)
(* (src/src/aggregator.py) and the batch loop of run_risk_engine           *)
(* (src/main.py).                                                          *)
(*                                                                         *)
(* Numbers are exact rationals <<n, d>> with d > 0 in lowest terms; the    *)
(* float NaN is <<0, 0>>.  Strings that the code parses (pairs, currency   *)
(* codes) are sequences of one-character strings, so that the regular      *)
(* expressions and split('/') are computed and not assumed.                *)
(***************************************************************************)
EXTENDS Integers, Sequences, FiniteSets, TLC

VARIABLES
    pc,               \* position of the scenario being run
    raw,              \* the raw field mapping handed to FXOptionTrade(**row)
    trade,            \* the FXOptionTrade object, or NoTrade
    built,            \* the object as construction returned it (history)
    verr,             \* the messages of the ValidationError, <<>> when none
    reporting,        \* the reporting_currency argument of calculate_metrics
    outcome,          \* what calculate_metrics did: a metrics dict or a raise
    rows,             \* df_raw: the rows of the batch
    idx,              \* index of the next row of the batch loop
    valid_results,    \* run_risk_engine's valid_results
    rejected_trades,  \* run_risk_engine's rejected_trades
    priced,           \* indices of the rows handed to calculate_metrics (history)
    df,               \* the DataFrame handed to the aggregator
    df_summary,       \* result of calculate_portfolio_totals
    df_by_pair,       \* result of group_risk_by_pair
    df_by_ccy         \* result of group_risk_by_currency

vars == <<pc, raw, trade, built, verr, reporting, outcome, rows, idx,
          valid_results, rejected_trades, priced, df, df_summary,
          df_by_pair, df_by_ccy>>

tradeVars == <<raw, trade, built, verr, reporting, outcome>>
batchVars == <<rows, idx, valid_results, rejected_trades, priced>>
aggVars   == <<df, df_summary, df_by_pair, df_by_ccy>>

---------------------------------------------------------------------------
(* Rational arithmetic, with the float NaN as <<0, 0>> and the infinities  *)
(* as <<1, 0>> and <<-1, 0>>.                                              *)

RECURSIVE Gcd(_, _)
Gcd(a, b) == IF b = 0 THEN a ELSE Gcd(b, a % b)

Abs(n) == IF n < 0 THEN -n ELSE n

NaN  == <<0, 0>>
PInf == <<1, 0>>
NInf == <<-1, 0>>

IsNaN(x) == x = NaN
IsInf(x) == x[2] = 0 /\ x[1] # 0
IsFinite(x) == x[2] > 0

Sgn(n) == IF n > 0 THEN 1 ELSE IF n < 0 THEN -1 ELSE 0

Rat(n, d) ==
    LET g == Gcd(Abs(n), d)
    IN  <<n \div g, d \div g>>

Zero == Rat(0, 1)
One  == Rat(1, 1)
Half == Rat(1, 2)

\* float multiplication: inf * 0 is nan
RMul(a, b) ==
    IF IsNaN(a) \/ IsNaN(b) THEN NaN
    ELSE IF IsInf(a) \/ IsInf(b)
    THEN <<Sgn(a[1]) * Sgn(b[1]), 0>>
    ELSE Rat(a[1] * b[1], a[2] * b[2])

\* float addition: inf + (-inf) is nan
RAdd(a, b) ==
    IF IsNaN(a) \/ IsNaN(b) THEN NaN
    ELSE IF IsInf(a) /\ IsInf(b) THEN (IF a = b THEN a ELSE NaN)
    ELSE IF IsInf(a) THEN a
    ELSE IF IsInf(b) THEN b
    ELSE LET l == (a[2] \div Gcd(a[2], b[2])) * b[2]
         IN  Rat(a[1] * (l \div a[2]) + b[1] * (l \div b[2]), l)

RNeg(a) == <<-a[1], a[2]>>

RSub(a, b) == RAdd(a, RNeg(b))

\* 1 / x for a finite x # 0
RInv(a) == IF a[1] < 0 THEN Rat(-a[2], -a[1]) ELSE Rat(a[2], a[1])

\* numpy's float64 division: x / 0 is nan or an infinity, with a warning and
\* no exception
NpDiv(a, b) ==
    IF IsNaN(a) \/ IsNaN(b) THEN NaN
    ELSE IF IsInf(b) THEN (IF IsInf(a) THEN NaN ELSE Zero)
    ELSE IF b = Zero THEN <<Sgn(a[1]), 0>>
    ELSE RMul(a, RInv(b))

\* the float comparisons: every comparison with NaN is false
RGt(a, b) ==
    /\ ~IsNaN(a)
    /\ ~IsNaN(b)
    /\ IF IsInf(a) /\ IsInf(b) THEN a[1] > b[1]
       ELSE a[1] * b[2] > b[1] * a[2]
RLe(a, b) == ~IsNaN(a) /\ ~IsNaN(b) /\ ~RGt(a, b)
RLt(a, b) == RGt(b, a)

---------------------------------------------------------------------------
(* Strings as character sequences.                                         *)

Upper == {"A", "B", "C", "D", "E", "F", "G", "H", "I", "J", "K", "L", "M",
          "N", "O", "P", "Q", "R", "S", "T", "U", "V", "W", "X", "Y", "Z"}

USD == <<"U", "S", "D">>
EUR == <<"E", "U", "R">>
GBP == <<"G", "B", "P">>
JPY == <<"J", "P", "Y">>
Slash == <<"/">>
Unknown == <<"U", "n", "k", "n", "o", "w", "n">>

\* str.split('/'): the maximal slash-free pieces, in order
RECURSIVE SplitFrom(_, _, _)
SplitFrom(s, i, cur) ==
    IF i > Len(s) THEN <<cur>>
    ELSE IF s[i] = "/" THEN <<cur>> \o SplitFrom(s, i + 1, <<>>)
    ELSE SplitFrom(s, i + 1, Append(cur, s[i]))

Split(s) == SplitFrom(s, 1, <<>>)

HasSlash(s) == \E i \in 1..Len(s) : s[i] = "/"

---------------------------------------------------------------------------
(* models.py: the FXOptionTrade schema.                                    *)

\* pattern=r"^[A-Z]{3}/[A-Z]{3}$"
MatchPair(s) ==
    /\ Len(s) = 7
    /\ \A i \in {1, 2, 3, 5, 6, 7} : s[i] \in Upper
    /\ s[4] = "/"

\* pattern=r"^[A-Z]{3}$"
MatchCcy(s) ==
    /\ Len(s) = 3
    /\ \A i \in 1..3 : s[i] \in Upper

VolMax == 5
MaturityMax == 100

OptionTypes == {"Call", "Put"}

FieldError(loc, type) == <<[loc |-> loc, type |-> type]>>

\* PositiveFloat: gt=0
PositiveFloatErrors(loc, v) ==
    IF RGt(v, Zero) THEN <<>> ELSE FieldError(loc, "greater_than")

\* BoundedFloatErrors with le read as lt
BoundedFloatErrorsLt(loc, v, hi) ==
    IF ~RGt(v, Zero) THEN FieldError(loc, "greater_than")
    ELSE IF ~RLt(v, Rat(hi, 1)) THEN FieldError(loc, "less_than_equal")
    ELSE <<>>

\* Field(gt=0, le=hi): the constraints are tried in this order, the first
\* that fails is the field's error
BoundedFloatErrors(loc, v, hi) ==
    IF ~RGt(v, Zero) THEN FieldError(loc, "greater_than")
    ELSE IF ~RLe(v, Rat(hi, 1)) THEN FieldError(loc, "less_than_equal")
    ELSE <<>>

PatternErrors(loc, ok) ==
    IF ok THEN <<>> ELSE FieldError(loc, "string_pattern_mismatch")

\* FieldErrors stopping at the first field that fails
FieldErrorsFirstOnly(r) ==
    LET all ==    PatternErrors("Underlying", MatchPair(r.Underlying))
               \o PositiveFloatErrors("Spot", r.Spot)
               \o PositiveFloatErrors("Strike", r.Strike)
               \o PositiveFloatErrors("Notional", r.Notional)
               \o PatternErrors("NotionalCurrency", MatchCcy(r.NotionalCurrency))
               \o BoundedFloatErrors("Vol", r.Vol, VolMax)
               \o BoundedFloatErrors("Expiry", r.Expiry, MaturityMax)
               \o (IF r.OptionType \in OptionTypes THEN <<>>
                   ELSE FieldError("OptionType", "enum"))
    IN  IF all = <<>> THEN <<>> ELSE <<all[1]>>

\* The field validators all run, in the order of the class body, and every
\* failure is collected.
FieldErrors(r) ==
       PatternErrors("Underlying", MatchPair(r.Underlying))
    \o PositiveFloatErrors("Spot", r.Spot)
    \o PositiveFloatErrors("Strike", r.Strike)
    \o PositiveFloatErrors("Notional", r.Notional)
    \o PatternErrors("NotionalCurrency", MatchCcy(r.NotionalCurrency))
    \o BoundedFloatErrors("Vol", r.Vol, VolMax)
    \o BoundedFloatErrors("Expiry", r.Expiry, MaturityMax)
    \o (IF r.OptionType \in OptionTypes THEN <<>>
        ELSE FieldError("OptionType", "enum"))

\* the object the field validators build, by alias
FieldsOf(r) ==
    [trade_id          |-> r.TradeID,
     pair              |-> r.Underlying,
     spot_price        |-> r.Spot,
     strike_price      |-> r.Strike,
     notional          |-> r.Notional,
     notional_currency |-> r.NotionalCurrency,
     volatility        |-> r.Vol,
     domestic_rate     |-> r.RateDomestic,
     foreign_rate      |-> r.RateForeign,
     time_to_maturity  |-> r.Expiry,
     option_type       |-> r.OptionType]

\* the f-string of check_currency_consistency: literal text and, at the even
\* positions, the interpolated values
CurrencyMessage(nc, pair, base, quote) ==
    <<"Notional Currency '", nc, "' is invalid for Pair '", pair,
      "'. Must be either '", base, "' or '", quote, "'.">>

\* check_currency_consistency comparing with the base currency alone
check_currency_consistency_base_only(self) ==
    IF ~HasSlash(self.pair) THEN <<>>
    ELSE LET parts == Split(self.pair)
             base  == parts[1]
             quote == parts[2]
         IN  IF self.notional_currency \notin {base}
             THEN <<[loc |-> "", type |-> "value_error",
                     msg |-> CurrencyMessage(self.notional_currency, self.pair,
                                             base, quote)]>>
             ELSE <<>>

\* @model_validator(mode='after'): <<>> when it returns self, the error it
\* raises otherwise
check_currency_consistency(self) ==
    IF ~HasSlash(self.pair) THEN <<>>
    ELSE LET parts == Split(self.pair)
             base  == parts[1]
             quote == parts[2]
         IN  IF self.notional_currency \notin {base, quote}
             THEN <<[loc |-> "", type |-> "value_error",
                     msg |-> CurrencyMessage(self.notional_currency, self.pair,
                                             base, quote)]>>
             ELSE <<>>

\* FXOptionTrade(**row): the after-validator runs on the built object, so
\* only when no field failed
Construct(r) ==
    IF ~r.strkeys THEN [kind |-> "TypeError"]
    ELSE IF FieldErrors(r) # <<>>
    THEN [kind |-> "ValidationError", errors |-> FieldErrors(r)]
    ELSE IF check_currency_consistency(FieldsOf(r)) # <<>>
    THEN [kind |-> "ValidationError",
          errors |-> check_currency_consistency(FieldsOf(r))]
    ELSE [kind |-> "ok", obj |-> FieldsOf(r)]

---------------------------------------------------------------------------
(* pricing.py: the Garman-Kohlhagen engine.  numpy's and scipy's functions *)
(* are transcendental; each is tabulated on a coarse grid (the value at    *)
(* the grid point nearest 0 of the cell the argument falls in), keeping    *)
(* its special values (nan, infinities, value at 0), its sign, its range,  *)
(* its symmetry and its monotonicity.                                      *)

RECURSIVE Isqrt(_)
Isqrt(n) ==
    IF n < 2 THEN n
    ELSE LET lo == 2 * Isqrt(n \div 4)
         IN  IF (lo + 1) * (lo + 1) > n THEN lo ELSE lo + 1

RAbs(x) == <<Abs(x[1]), x[2]>>

\* np.sqrt: nan (and a warning) below 0; exact on the squares, else to one
\* decimal place
NpSqrt(x) ==
    IF IsNaN(x) \/ RLt(x, Zero) THEN NaN
    ELSE IF IsInf(x) THEN x
    ELSE Rat(Isqrt(100 * x[1] * x[2]), 10 * x[2])

\* np.log: nan (and a warning) below 0, -inf at 0, 0 at 1, increasing;
\* grid 1/64, 1/2, 1, 2, 64
NpLog(x) ==
    IF IsNaN(x) \/ RLt(x, Zero) THEN NaN
    ELSE IF x = Zero THEN NInf
    ELSE IF IsInf(x) THEN x
    ELSE IF RLe(x, Rat(1, 64)) THEN Rat(-41, 10)
    ELSE IF RLe(Rat(64, 1), x) THEN Rat(41, 10)
    ELSE IF RLe(x, Half) THEN Rat(-7, 10)
    ELSE IF RLt(x, One) THEN Rat(-1, 10)
    ELSE IF x = One THEN Zero
    ELSE IF RLt(x, Rat(2, 1)) THEN Rat(1, 10)
    ELSE Rat(7, 10)

\* np.exp: positive, 1 at 0, increasing; grid -1, 0, 1
NpExp(x) ==
    IF IsNaN(x) THEN NaN
    ELSE IF x = PInf THEN PInf
    ELSE IF x = NInf THEN Zero
    ELSE IF RLe(x, Rat(-1, 1)) THEN Rat(3, 10)
    ELSE IF RLt(x, Zero) THEN Rat(9, 10)
    ELSE IF x = Zero THEN One
    ELSE IF RLt(x, One) THEN Rat(11, 10)
    ELSE Rat(3, 1)

\* norm.cdf: 0 at -inf, 1/2 at 0, 1 at +inf, increasing, cdf(-d) = 1 - cdf(d)
\* on the grid 0, 1, 2.  In double precision the tails saturate: the value
\* is exactly 1.0 from about 8.3 upwards and exactly 0.0 from about -38.5
\* downwards (cells from 9 and to -39).
NormCdf(d) ==
    IF IsNaN(d) THEN NaN
    ELSE IF d = PInf THEN One
    ELSE IF d = NInf THEN Zero
    ELSE IF RLe(Rat(9, 1), d) THEN One
    ELSE IF RLe(d, Rat(-39, 1)) THEN Zero
    ELSE LET up == IF d = Zero THEN Half
                   ELSE IF RLt(RAbs(d), One) THEN Rat(7, 10)
                   ELSE IF RLt(RAbs(d), Rat(2, 1)) THEN Rat(21, 25)
                   ELSE Rat(49, 50)
         IN  IF RLt(d, Zero) THEN RSub(One, up) ELSE up

\* norm.pdf: 0 at the infinities, positive, even, decreasing in |d|;
\* grid 0, 1, 2
NormPdf(d) ==
    IF IsNaN(d) THEN NaN
    ELSE IF IsInf(d) THEN Zero
    ELSE IF d = Zero THEN Rat(2, 5)
    ELSE IF RLt(RAbs(d), One) THEN Rat(3, 10)
    ELSE IF RLt(RAbs(d), Rat(2, 1)) THEN Rat(6, 25)
    ELSE Rat(1, 20)

\* _calculate_d1_d2; S / K is Python's float division and K is not 0 here
calculate_d1_d2(S, K, T, rd, rf, sigma) ==
    LET sqrt_T == NpSqrt(T)
        drift  == RMul(RAdd(RSub(rd, rf), RMul(Half, RMul(sigma, sigma))), T)
        d1     == NpDiv(RAdd(NpLog(RMul(S, RInv(K))), drift), RMul(sigma, sqrt_T))
        d2     == RSub(d1, RMul(sigma, sqrt_T))
    IN  <<d1, d2>>

\* fx_rate_to_usd multiplying by the spot where the code divides by it
fx_rate_to_usd_times_spot(base_ccy, quote_ccy, reporting_currency, S) ==
    IF quote_ccy = reporting_currency THEN One
    ELSE IF base_ccy = reporting_currency /\ quote_ccy # reporting_currency
    THEN S
    ELSE One

\* the conversion rate of calculate_metrics, once base_ccy and quote_ccy are
\* bound
fx_rate_to_usd(base_ccy, quote_ccy, reporting_currency, S) ==
    IF quote_ccy = reporting_currency THEN One
    ELSE IF base_ccy = reporting_currency /\ quote_ccy # reporting_currency
    THEN RInv(S)
    ELSE One

Raise(exc) == [kind |-> "raise", exc |-> exc]

\* the Put's delta without the "- 1"
delta_unit_put_unsigned(option_type, disc_f, d1) ==
    RMul(disc_f, NormCdf(d1))

\* delta_unit of calculate_metrics: e^(-rf*T) * N(d1) for a Call,
\* e^(-rf*T) * (N(d1) - 1) for a Put
delta_unit(option_type, disc_f, d1) ==
    IF option_type = "Call"
    THEN RMul(disc_f, NormCdf(d1))
    ELSE RMul(disc_f, RSub(NormCdf(d1), One))

\* BlackScholesFX.calculate_metrics
calculate_metrics(t, reporting_currency) ==
    LET S        == t.spot_price
        K        == t.strike_price
        T        == t.time_to_maturity
        sigma    == t.volatility
        rd       == t.domestic_rate
        rf       == t.foreign_rate
        d        == calculate_d1_d2(S, K, T, rd, rf, sigma)
        d1       == d[1]
        d2       == d[2]
        disc_d   == NpExp(RMul(RNeg(rd), T))
        disc_f   == NpExp(RMul(RNeg(rf), T))
        price_unit ==
            IF t.option_type = "Call"
            THEN RSub(RMul(RMul(S, disc_f), NormCdf(d1)),
                      RMul(RMul(K, disc_d), NormCdf(d2)))
            ELSE RSub(RMul(RMul(K, disc_d), NormCdf(RNeg(d2))),
                      RMul(RMul(S, disc_f), NormCdf(RNeg(d1))))
        delta_u == delta_unit(t.option_type, disc_f, d1)
        vega_unit    == RMul(RMul(RMul(S, disc_f), NormPdf(d1)), NpSqrt(T))
        pv_native    == RMul(price_unit, t.notional)
        delta_native == RMul(delta_u, t.notional)
        vega_native  == RMul(vega_unit, t.notional)
        parts     == Split(t.pair)
        unpacked  == Len(parts) = 2
        quote_ccy == IF unpacked THEN parts[2] ELSE Unknown
        rate      == fx_rate_to_usd(parts[1], quote_ccy, reporting_currency, S)
    IN  IF K = Zero THEN Raise("ZeroDivisionError")
        ELSE IF ~unpacked /\ quote_ccy # reporting_currency
        THEN Raise("UnboundLocalError")
        ELSE IF /\ quote_ccy # reporting_currency
                /\ parts[1] = reporting_currency
                /\ S = Zero
        THEN Raise("ZeroDivisionError")
        ELSE [kind         |-> "metrics",
              PV_Native    |-> pv_native,
              Delta_Native |-> delta_native,
              Vega_Native  |-> vega_native,
              Currency     |-> quote_ccy,
              PV_USD       |-> RMul(pv_native, rate),
              Delta_USD    |-> RMul(delta_native, rate),
              Vega_USD     |-> RMul(vega_native, rate)]

---------------------------------------------------------------------------
(* aggregator.py: PortfolioAggregator.  A DataFrame is its set of columns  *)
(* and its sequence of rows.                                               *)

EmptyFrame == [cols |-> {}, rows |-> <<>>]

\* pd.DataFrame(list of dicts): the columns are the keys of the dicts
DataFrame(results) ==
    [cols |-> UNION {DOMAIN results[i] : i \in 1..Len(results)},
     rows |-> results]

\* df.empty: an axis of length 0
IsEmpty(f) == f.cols = {} \/ Len(f.rows) = 0

prepare_trade_report(results) ==
    IF results # <<>> THEN DataFrame(results) ELSE EmptyFrame

\* SelectSuccess keeping every row
SelectAll(rs) == rs

\* df[df["Status"] == "Success"]
RECURSIVE SelectSuccess(_)
SelectSuccess(rs) ==
    IF rs = <<>> THEN <<>>
    ELSE (IF Head(rs).Status = "Success" THEN <<Head(rs)>> ELSE <<>>)
         \o SelectSuccess(Tail(rs))

\* The columns hold doubles, and a sum of doubles is rounded to the
\* significand: 53 bits in the code, scaled here to SignificandBits so that
\* the amounts where a sum starts to round are within reach.  From
\* 2^SignificandBits upwards the representable amounts are 2, 4, 8, ...
\* apart; amounts below it are kept exact.
SignificandBits == 24

RECURSIVE Pow2(_)
Pow2(k) == IF k = 0 THEN 1 ELSE 2 * Pow2(k - 1)

\* the distance between neighbouring doubles at magnitude m, from s upwards
RECURSIVE Spacing(_, _)
Spacing(m, s) ==
    IF m < Pow2(SignificandBits) * s THEN s ELSE Spacing(m, 2 * s)

\* x rounded to the nearest multiple of s, a tie to the even multiple
RoundTo(x, s) ==
    LET m == Abs(x[1])
        u == x[2] * s
        q == m \div u
        r == m - q * u
        k == IF 2 * r > u \/ (2 * r = u /\ q % 2 = 1) THEN q + 1 ELSE q
    IN  Rat(Sgn(x[1]) * k * s, 1)

\* the double nearest to x
Fl(x) ==
    IF ~IsFinite(x) THEN x
    ELSE LET s == Spacing(Abs(x[1]) \div x[2], 1)
         IN  IF s = 1 THEN x ELSE RoundTo(x, s)

\* the + of doubles
FAdd(a, b) == Fl(RAdd(a, b))

\* Series.sum(): skipna, so a nan adds nothing; the values are added one
\* after the other from the first row on
RECURSIVE SumCol(_, _)
SumCol(rs, col) ==
    IF rs = <<>> THEN Zero
    ELSE LET init == SumCol(SubSeq(rs, 1, Len(rs) - 1), col)
             v    == rs[Len(rs)][col]
         IN  IF IsNaN(v) THEN init ELSE FAdd(init, v)

calculate_portfolio_totals(f) ==
    IF IsEmpty(f) \/ "Status" \notin f.cols THEN EmptyFrame
    ELSE LET valid_df == SelectSuccess(f.rows)
         IN  IF valid_df = <<>>
             THEN [cols |-> {"Metric", "Value"},
                   rows |-> <<[Metric |-> "Status", Value |-> "No Valid Trades"]>>]
             ELSE [cols |-> {"Metric", "Value"},
                   rows |->
                     <<[Metric |-> "Total PV (USD)",
                        Value  |-> SumCol(valid_df, "PV_USD")],
                       [Metric |-> "Total Delta (USD)",
                        Value  |-> SumCol(valid_df, "Delta_USD")],
                       [Metric |-> "Total Vega (USD)",
                        Value  |-> SumCol(valid_df, "Vega_USD")],
                       [Metric |-> "Valid Trades", Value |-> Len(valid_df)]>>]

\* the order of str: by code point, "/" before the capitals before the
\* small letters
Alphabet ==
    <<"/", "A", "B", "C", "D", "E", "F", "G", "H", "I", "J", "K", "L", "M",
      "N", "O", "P", "Q", "R", "S", "T", "U", "V", "W", "X", "Y", "Z",
      "a", "b", "c", "d", "e", "f", "g", "h", "i", "j", "k", "l", "m",
      "n", "o", "p", "q", "r", "s", "t", "u", "v", "w", "x", "y", "z">>

Ord(c) == CHOOSE i \in 1..Len(Alphabet) : Alphabet[i] = c

RECURSIVE StrLt(_, _)
StrLt(a, b) ==
    IF b = <<>> THEN FALSE
    ELSE IF a = <<>> THEN TRUE
    ELSE IF Head(a) = Head(b) THEN StrLt(Tail(a), Tail(b))
    ELSE Ord(Head(a)) < Ord(Head(b))

\* the group keys in groupby's order (sort=True)
RECURSIVE SortedKeys(_)
SortedKeys(ks) ==
    IF ks = {} THEN <<>>
    ELSE LET m == CHOOSE k \in ks : \A o \in ks \ {k} : StrLt(k, o)
         IN  <<m>> \o SortedKeys(ks \ {m})

RECURSIVE SelectKey(_, _, _)
SelectKey(rs, by, k) ==
    IF rs = <<>> THEN <<>>
    ELSE (IF Head(rs)[by] = k THEN <<Head(rs)>> ELSE <<>>)
         \o SelectKey(Tail(rs), by, k)

\* GroupRow summing the whole frame into every group
GroupRowUngrouped(rs, by, k) ==
    [c \in {by, "PV_USD", "Delta_USD", "Vega_USD"} |->
        IF c = by THEN k ELSE SumCol(rs, c)]

\* one row of the grouped frame: the key in column `by` and the sums of its
\* group
GroupRow(rs, by, k) ==
    LET g == SelectKey(rs, by, k)
    IN  [c \in {by, "PV_USD", "Delta_USD", "Vega_USD"} |->
            IF c = by THEN k ELSE SumCol(g, c)]

\* valid_df.groupby(by)[["PV_USD", "Delta_USD", "Vega_USD"]].sum().reset_index();
\* the row's key is its value in column `by`
GroupSum(rs, by) ==
    LET keys == SortedKeys({rs[i][by] : i \in 1..Len(rs)})
    IN  [cols |-> {by, "PV_USD", "Delta_USD", "Vega_USD"},
         rows |-> [j \in 1..Len(keys) |-> GroupRow(rs, by, keys[j])]]

group_risk_by_pair(f) ==
    IF IsEmpty(f) \/ "Pair" \notin f.cols THEN EmptyFrame
    ELSE GroupSum(SelectSuccess(f.rows), "Pair")

\* group_risk_by_currency without the filter on Status
group_risk_by_currency_unfiltered(f) ==
    IF IsEmpty(f) \/ "Currency" \notin f.cols THEN EmptyFrame
    ELSE GroupSum(f.rows, "Currency")

group_risk_by_currency(f) ==
    IF IsEmpty(f) \/ "Currency" \notin f.cols THEN EmptyFrame
    ELSE GroupSum(SelectSuccess(f.rows), "Currency")

---------------------------------------------------------------------------
(* main.py: the body of the batch loop of run_risk_engine.                 *)

\* the built-in exceptions each class derives from; pydantic's
\* ValidationError is a ValueError
Bases(exc) ==
    CASE exc = "ValidationError"   -> {"ValidationError", "ValueError", "Exception"}
      [] exc = "ValueError"        -> {"ValueError", "Exception"}
      [] exc = "TypeError"         -> {"TypeError", "Exception"}
      [] exc = "ZeroDivisionError" -> {"ZeroDivisionError", "ArithmeticError",
                                       "Exception"}
      [] exc = "UnboundLocalError" -> {"UnboundLocalError", "NameError",
                                       "Exception"}

\* except_clause without the final `except Exception`
except_clause_no_catch_all(exc) ==
    IF "ValidationError" \in Bases(exc) THEN "Validation"
    ELSE IF "ValueError" \in Bases(exc) THEN "Pricing"
    ELSE "uncaught"

\* the first except clause of the loop body that matches, by the prefix it
\* gives the Error column
except_clause(exc) ==
    IF "ValidationError" \in Bases(exc) THEN "Validation"
    ELSE IF "ValueError" \in Bases(exc) THEN "Pricing"
    ELSE IF "Exception" \in Bases(exc) THEN "System Error"
    ELSE "uncaught"

\* the success record of the loop body
SuccessRecord(trade_obj, metrics) ==
    [TradeID      |-> trade_obj.trade_id,
     Pair         |-> trade_obj.pair,
     Type         |-> trade_obj.option_type,
     Notional     |-> trade_obj.notional,
     Currency     |-> metrics.Currency,
     PV_Native    |-> metrics.PV_Native,
     Delta_Native |-> metrics.Delta_Native,
     Vega_Native  |-> metrics.Vega_Native,
     PV_USD       |-> metrics.PV_USD,
     Delta_USD    |-> metrics.Delta_USD,
     Vega_USD     |-> metrics.Vega_USD,
     Status       |-> "Success"]

\* the try block after FXOptionTrade(**row_dict) returned trade_obj: B.
\* pricing and C. the success record
price_and_record(trade_obj, metrics) ==
    IF metrics.kind = "raise"
    THEN [raised |-> TRUE, exc |-> metrics.exc, text |-> <<>>, priced |-> TRUE]
    ELSE [raised |-> FALSE, priced |-> TRUE,
          record |-> SuccessRecord(trade_obj, metrics)]

\* the try block, given what A. validation did: the record it appends, or
\* the exception that leaves it with its text; `priced` tells whether
\* calculate_metrics was called
after_validation(c) ==
    IF c.kind = "ValidationError"
    THEN [raised |-> TRUE, exc |-> c.kind, text |-> c.errors, priced |-> FALSE]
    ELSE IF c.kind # "ok"
    THEN [raised |-> TRUE, exc |-> c.kind, text |-> <<>>, priced |-> FALSE]
    ELSE price_and_record(c.obj, calculate_metrics(c.obj, USD))

\* the try block on one row
try_block(row_dict) == after_validation(Construct(row_dict))

---------------------------------------------------------------------------
(* Inputs.                                                                 *)

Pair(base, quote) == base \o Slash \o quote

NoTrade == [none |-> TRUE]
NoOutcome == [kind |-> "none"]
NoFrame == [kind |-> "none"]

RawRow(u, s, k, n, nc, v, rd, rf, e, o) ==
    [strkeys |-> TRUE, TradeID |-> <<"T", "1">>, Underlying |-> u, Spot |-> s,
     Strike |-> k, Notional |-> n, NotionalCurrency |-> nc, Vol |-> v,
     RateDomestic |-> rd, RateForeign |-> rf, Expiry |-> e, OptionType |-> o]

\* the rows validation is tried on: well-formed and malformed pairs and
\* codes, every numeric field on both sides of each of its bounds, a blank
\* cell (nan) and an unknown option kind
RawRows ==
    {RawRow(u, s, k, n, nc, v, Rat(1, 50), Rat(1, 100), e, o) :
        u  \in {Pair(EUR, USD), Pair(USD, JPY), Pair(EUR, GBP),
                EUR \o USD, <<"e", "u", "r", "/", "u", "s", "d">>},
        s  \in {Zero, Rat(11, 10)},
        k  \in {Rat(-1, 1), Rat(28, 25)},
        n  \in {Zero, Rat(1000000, 1)},
        nc \in {USD, EUR, GBP, <<"u", "s", "d">>},
        v  \in {Zero, Rat(1, 10000), Rat(1, 5), Rat(5, 1), Rat(51, 10), NaN},
        e  \in {Zero, Rat(1, 2), Rat(100, 1), Rat(101, 1)},
        o  \in {"Call", "Put", "Swap"}}

otherVarsIdle ==
    /\ rows = <<>>
    /\ idx = 0
    /\ valid_results = <<>>
    /\ rejected_trades = <<>>
    /\ priced = {}
    /\ df = NoFrame
    /\ df_summary = NoFrame
    /\ df_by_pair = NoFrame
    /\ df_by_ccy = NoFrame

InitModels ==
    /\ pc = "raw"
    /\ raw \in RawRows
    /\ trade = NoTrade
    /\ built = NoTrade
    /\ verr = <<>>
    /\ reporting = USD
    /\ outcome = NoOutcome
    /\ otherVarsIdle

\* trade_obj = FXOptionTrade(**row_dict)
NewTrade ==
    /\ pc = "raw"
    /\ LET c == Construct(raw)
       IN  CASE c.kind = "ok" ->
                   /\ trade' = c.obj
                   /\ built' = c.obj
                   /\ verr' = <<>>
                   /\ pc' = "built"
             [] c.kind = "ValidationError" ->
                   /\ verr' = c.errors
                   /\ pc' = "rejected"
                   /\ UNCHANGED <<trade, built>>
             [] OTHER ->
                   /\ pc' = "crashed"
                   /\ UNCHANGED <<trade, built, verr>>
    /\ UNCHANGED <<raw, reporting, outcome>>
    /\ UNCHANGED batchVars
    /\ UNCHANGED aggVars

NextModels == NewTrade

SpecModels == InitModels /\ [][NextModels]_vars

---------------------------------------------------------------------------
(* Properties of validation (SpecModels).                                  *)

BaseOf(r)  == SubSeq(r.Underlying, 1, 3)
QuoteOf(r) == SubSeq(r.Underlying, 5, 7)

InUnitRange(v, hi) == RGt(v, Zero) /\ RLe(v, Rat(hi, 1))

\* the field-level rules of section 4.1 that a row violates, by field
ViolatedFields(r) ==
         (IF MatchPair(r.Underlying) THEN {} ELSE {"Underlying"})
    \cup (IF RGt(r.Spot, Zero) THEN {} ELSE {"Spot"})
    \cup (IF RGt(r.Strike, Zero) THEN {} ELSE {"Strike"})
    \cup (IF RGt(r.Notional, Zero) THEN {} ELSE {"Notional"})
    \cup (IF MatchCcy(r.NotionalCurrency) THEN {} ELSE {"NotionalCurrency"})
    \cup (IF InUnitRange(r.Vol, 5) THEN {} ELSE {"Vol"})
    \cup (IF InUnitRange(r.Expiry, 100) THEN {} ELSE {"Expiry"})
    \cup (IF r.OptionType \in {"Call", "Put"} THEN {} ELSE {"OptionType"})

CrossViolated(r) ==
    /\ MatchPair(r.Underlying)
    /\ r.NotionalCurrency \notin {BaseOf(r), QuoteOf(r)}

HasCurrencyMessage ==
    \E i \in 1..Len(verr) :
        /\ verr[i].type = "value_error"
        /\ verr[i].msg[2] = raw.NotionalCurrency
        /\ verr[i].msg[6] = BaseOf(raw)
        /\ verr[i].msg[8] = QuoteOf(raw)

C6_CrossFieldIff ==
    (pc # "raw" /\ ViolatedFields(raw) = {}) =>
        /\ pc = "built" <=> raw.NotionalCurrency \in {BaseOf(raw), QuoteOf(raw)}
        /\ pc = "built" => trade # NoTrade
        /\ pc # "built" =>
              /\ pc = "rejected"
              /\ trade = NoTrade
              /\ HasCurrencyMessage

C6_Witness ==
    /\ pc = "rejected"
    /\ ViolatedFields(raw) = {}
    /\ raw.Underlying = Pair(EUR, USD)
    /\ raw.NotionalCurrency = GBP
    /\ HasCurrencyMessage

OtherFieldsValid(r, f) ==
    /\ ViolatedFields(r) \subseteq {f}
    /\ ~CrossViolated(r)

\* C7: a row is accepted only if volatility is in (0, 5], maturity in
\* (0, 100] and spot, strike and notional are positive; with the other
\* fields valid, volatility 0 and 5.1 and maturity 0 are rejected and
\* volatility 5, volatility 0.0001 and maturity 100 are accepted.
C7_Ranges ==
    /\ pc = "built" =>
          /\ InUnitRange(raw.Vol, 5)
          /\ InUnitRange(raw.Expiry, 100)
          /\ RGt(raw.Spot, Zero)
          /\ RGt(raw.Strike, Zero)
          /\ RGt(raw.Notional, Zero)
    /\ (pc # "raw" /\ OtherFieldsValid(raw, "Vol")) =>
          /\ raw.Vol \in {Zero, Rat(51, 10)} => pc = "rejected"
          /\ raw.Vol \in {Rat(5, 1), Rat(1, 10000)} => pc = "built"
    /\ (pc # "raw" /\ OtherFieldsValid(raw, "Expiry")) =>
          /\ raw.Expiry = Zero => pc = "rejected"
          /\ raw.Expiry = Rat(100, 1) => pc = "built"

C7_Witness ==
    /\ pc = "built"
    /\ raw.Vol = Rat(5, 1)
    /\ raw.Expiry = Rat(100, 1)

---------------------------------------------------------------------------
(* Pricing one trade: construction, attribute assignment, calculate_metrics *)
(* (SpecPricing).                                                          *)

CHF == <<"C", "H", "F">>

\* valid rows: every pair shape against the reporting currencies, spot on
\* both sides of the strike, both option kinds, foreign rates of both signs
PricingRows ==
    {RawRow(Pair(p[1], p[2]), s, k, Rat(1000, 1), nc, Rat(1, 5), Rat(1, 50), rf,
            e, o) :
        p  \in {<<EUR, USD>>, <<USD, JPY>>, <<EUR, GBP>>},
        s  \in {Rat(11, 10), Rat(100, 1)},
        k  \in {One, Rat(100, 1)},
        nc \in {EUR, USD, GBP},
        rf \in {Rat(-1, 100), Rat(1, 100)},
        e  \in {Rat(1, 4), One},
        o  \in {"Call", "Put"}}

Reportings == {USD, EUR}

\* what an assignment trade.<field> = <value> may store
Assignable ==
    [notional_currency |-> {CHF},
     pair              |-> {EUR \o USD},
     volatility        |-> {Zero, Rat(-1, 5)},
     time_to_maturity  |-> {Zero, Rat(-1, 1)},
     spot_price        |-> {Zero},
     strike_price      |-> {Zero}]

InitPricing ==
    /\ pc = "raw"
    /\ raw \in PricingRows
    /\ trade = NoTrade
    /\ built = NoTrade
    /\ verr = <<>>
    /\ reporting \in Reportings
    /\ outcome = NoOutcome
    /\ otherVarsIdle

\* trade.<f> = v on a constructed object: model_config sets neither frozen
\* nor validate_assignment, so the value is stored unchecked
SetAttr(f, v) ==
    /\ pc = "built"
    /\ trade[f] # v
    /\ trade' = [trade EXCEPT ![f] = v]
    /\ UNCHANGED <<pc, raw, built, verr, reporting, outcome>>
    /\ UNCHANGED batchVars
    /\ UNCHANGED aggVars

\* metrics = BlackScholesFX.calculate_metrics(trade, reporting_currency)
Price ==
    /\ pc = "built"
    /\ outcome' = calculate_metrics(trade, reporting)
    /\ pc' = "priced"
    /\ UNCHANGED <<raw, trade, built, verr, reporting>>
    /\ UNCHANGED batchVars
    /\ UNCHANGED aggVars

NextPricing ==
    \/ NewTrade
    \/ \E f \in DOMAIN Assignable : \E v \in Assignable[f] : SetAttr(f, v)
    \/ Price

SpecPricing == InitPricing /\ [][NextPricing]_vars

\* the constraints of section 3 on a trade record
TradeValid(t) ==
    /\ MatchPair(t.pair)
    /\ t.notional_currency \in {SubSeq(t.pair, 1, 3), SubSeq(t.pair, 5, 7)}
    /\ InUnitRange(t.volatility, 5)
    /\ InUnitRange(t.time_to_maturity, 100)
    /\ RGt(t.spot_price, Zero)
    /\ RGt(t.strike_price, Zero)
    /\ RGt(t.notional, Zero)

\* the factor section 4.3 prescribes
SpecFactor(base, quote, R, spot) ==
    IF quote = R THEN One
    ELSE IF base = R THEN NpDiv(One, spot)
    ELSE One

\* C1: for a valid trade BASE/QUOTE and a reporting currency R, every
\* normalized metric is the native metric times one factor: 1 when QUOTE = R
\* (normalized = native), 1/spot when BASE = R and QUOTE # R (normalized =
\* native / spot), 1 otherwise; the Currency label is QUOTE.
C1_Normalization ==
    (pc = "priced" /\ trade = built) =>
        LET base  == BaseOf(raw)
            quote == QuoteOf(raw)
            f     == SpecFactor(base, quote, reporting, raw.Spot)
        IN  /\ outcome.kind = "metrics"
            /\ outcome.Currency = quote
            /\ outcome.PV_USD = RMul(outcome.PV_Native, f)
            /\ outcome.Delta_USD = RMul(outcome.Delta_Native, f)
            /\ outcome.Vega_USD = RMul(outcome.Vega_Native, f)
            /\ quote = reporting =>
                  /\ outcome.PV_USD = outcome.PV_Native
                  /\ outcome.Delta_USD = outcome.Delta_Native
                  /\ outcome.Vega_USD = outcome.Vega_Native
            /\ (base = reporting /\ quote # reporting) =>
                  outcome.PV_USD = NpDiv(outcome.PV_Native, raw.Spot)
            /\ (base # reporting /\ quote # reporting) =>
                  outcome.PV_USD = outcome.PV_Native

C1_Witness ==
    /\ pc = "priced"
    /\ trade = built
    /\ raw.Underlying = Pair(USD, JPY)
    /\ reporting = USD
    /\ raw.Spot = Rat(100, 1)
    /\ outcome.kind = "metrics"
    /\ outcome.PV_Native # Zero
    /\ outcome.PV_USD # outcome.PV_Native
    /\ outcome.Currency = JPY

\* C9: calculate_metrics called with a trade whose maturity or volatility is
\* not > 0 fails with an error instead of returning metrics.
C9_DomainGuard ==
    (/\ pc = "priced"
     /\ \/ ~RGt(trade.time_to_maturity, Zero)
        \/ ~RGt(trade.volatility, Zero))
        => outcome.kind = "raise"

\* C10: a trade record cannot change after construction, so every trade that
\* reaches calculate_metrics is the object construction returned and
\* satisfies the validated constraints.
C10_Immutable ==
    pc = "priced" => (trade = built /\ TradeValid(trade))

\* d1 of the trade, and the foreign discount factor e^(-rf*T)
D1Of(t) ==
    calculate_d1_d2(t.spot_price, t.strike_price, t.time_to_maturity,
                    t.domestic_rate, t.foreign_rate, t.volatility)[1]

DiscFOf(t) == NpExp(RMul(RNeg(t.foreign_rate), t.time_to_maturity))

---------------------------------------------------------------------------
(* The aggregation steps of run_risk_engine, shared by the batch (Spec) and *)
(* by the aggregator on arbitrary frames (SpecAgg).                         *)

\* df_summary = PortfolioAggregator.calculate_portfolio_totals(df_trades)
Totals ==
    /\ pc = "totals"
    /\ df_summary' = calculate_portfolio_totals(df)
    /\ pc' = "by_pair"
    /\ UNCHANGED <<df, df_by_pair, df_by_ccy>>
    /\ UNCHANGED tradeVars
    /\ UNCHANGED batchVars

\* df_by_pair = PortfolioAggregator.group_risk_by_pair(df_trades)
ByPair ==
    /\ pc = "by_pair"
    /\ df_by_pair' = group_risk_by_pair(df)
    /\ pc' = "by_ccy"
    /\ UNCHANGED <<df, df_summary, df_by_ccy>>
    /\ UNCHANGED tradeVars
    /\ UNCHANGED batchVars

\* df_by_ccy = PortfolioAggregator.group_risk_by_currency(df_trades)
ByCcy ==
    /\ pc = "by_ccy"
    /\ df_by_ccy' = group_risk_by_currency(df)
    /\ pc' = "done"
    /\ UNCHANGED <<df, df_summary, df_by_pair>>
    /\ UNCHANGED tradeVars
    /\ UNCHANGED batchVars

MaxFrameRows == 3

AggRow(st, p, c, v) ==
    [Status |-> st, Pair |-> p, Currency |-> c,
     PV_USD |-> Rat(v[1], 1), Delta_USD |-> Rat(v[2], 1), Vega_USD |-> Rat(v[3], 1)]

\* result rows: successes and failures, two pairs that share a quote
\* currency and one that does not
AggRows ==
    {AggRow(st, pc2[1], pc2[2], v) :
        st  \in {"Success", "Failed"},
        pc2 \in {<<Pair(EUR, USD), USD>>, <<Pair(GBP, USD), USD>>,
                 <<Pair(USD, JPY), JPY>>},
        v   \in {<<100, 50, 10>>, <<999, -25, 0>>}}

\* rows without the Pair and Currency columns
BareRows ==
    {[Status |-> st, PV_USD |-> Rat(200, 1), Delta_USD |-> Rat(25, 1),
      Vega_USD |-> Rat(20, 1)] : st \in {"Success", "Failed"}}

\* result rows whose amounts reach the magnitude where a sum of doubles
\* rounds: 2^SignificandBits and its negative on one pair, 1 on another
RoundingRows ==
    {AggRow(st, pc2[1], pc2[2], v) :
        st  \in {"Success", "Failed"},
        pc2 \in {<<Pair(EUR, USD), USD>>},
        v   \in {<<Pow2(SignificandBits), 50, 10>>,
                 <<-Pow2(SignificandBits), -25, 0>>}}
    \cup {AggRow(st, Pair(USD, JPY), JPY, <<1, 1, 1>>) :
            st \in {"Success", "Failed"}}

SeqsUpTo(S, n) == UNION {[1..m -> S] : m \in 0..n}

InitAgg ==
    /\ pc = "totals"
    /\ \E rs \in SeqsUpTo(AggRows, MaxFrameRows)
                  \cup SeqsUpTo(BareRows, MaxFrameRows)
                  \cup SeqsUpTo(RoundingRows, MaxFrameRows) :
          df = DataFrame(rs)
    /\ df_summary = NoFrame
    /\ df_by_pair = NoFrame
    /\ df_by_ccy = NoFrame
    /\ raw = NoTrade
    /\ trade = NoTrade
    /\ built = NoTrade
    /\ verr = <<>>
    /\ reporting = USD
    /\ outcome = NoOutcome
    /\ rows = <<>>
    /\ idx = 0
    /\ valid_results = <<>>
    /\ rejected_trades = <<>>
    /\ priced = {}

NextAgg == Totals \/ ByPair \/ ByCcy

SpecAgg == InitAgg /\ [][NextAgg]_vars

---------------------------------------------------------------------------
(* run_risk_engine: the batch loop, then the aggregation (Spec).           *)

MaxRows == 3

BatchRow(id, u, nc, s, v, o, sk) ==
    [strkeys |-> sk, TradeID |-> <<"T", id>>, Underlying |-> u, Spot |-> s,
     Strike |-> Rat(100, 1), Notional |-> Rat(1000, 1), NotionalCurrency |-> nc,
     Vol |-> v, RateDomestic |-> Rat(1, 50), RateForeign |-> Rat(1, 100),
     Expiry |-> One, OptionType |-> o]

\* rows of a sheet: three valid trades, a row out of range, a row whose
\* notional currency is no leg of its pair, and a row of a sheet with a
\* column whose header is not text
BatchRows ==
    {BatchRow("1", Pair(EUR, USD), USD, Rat(11, 10), Rat(1, 5), "Call", TRUE),
     BatchRow("2", Pair(USD, JPY), USD, Rat(100, 1), Rat(1, 5), "Put", TRUE),
     BatchRow("3", Pair(EUR, GBP), GBP, Rat(11, 10), Rat(1, 5), "Call", TRUE),
     BatchRow("4", Pair(EUR, USD), USD, Rat(11, 10), Zero, "Call", TRUE),
     BatchRow("5", Pair(EUR, USD), GBP, Rat(11, 10), Rat(1, 5), "Put", TRUE),
     BatchRow("6", Pair(EUR, USD), USD, Rat(11, 10), Rat(1, 5), "Call", FALSE)}

Init ==
    /\ pc = "loop"
    /\ rows \in SeqsUpTo(BatchRows, MaxRows)
    /\ idx = 1
    /\ valid_results = <<>>
    /\ rejected_trades = <<>>
    /\ priced = {}
    /\ df = NoFrame
    /\ df_summary = NoFrame
    /\ df_by_pair = NoFrame
    /\ df_by_ccy = NoFrame
    /\ raw = NoTrade
    /\ trade = NoTrade
    /\ built = NoTrade
    /\ verr = <<>>
    /\ reporting = USD
    /\ outcome = NoOutcome

\* what the loop does with the outcome r of the try block on row_dict: the
\* append of the try block, or the except clause that takes the exception;
\* an exception no clause takes leaves run_risk_engine
Collect(row_dict, r) ==
    /\ priced' = IF r.priced THEN priced \cup {idx} ELSE priced
    /\ IF ~r.raised
       THEN /\ valid_results' = Append(valid_results, r.record)
            /\ UNCHANGED <<rejected_trades, pc>>
       ELSE IF except_clause(r.exc) = "uncaught"
       THEN /\ pc' = "aborted"
            /\ UNCHANGED <<valid_results, rejected_trades>>
       ELSE /\ rejected_trades' =
                 Append(rejected_trades,
                        ("Error" :> <<except_clause(r.exc), r.exc, r.text>>)
                            @@ row_dict)
            /\ UNCHANGED <<valid_results, pc>>

\* one iteration of `for index, row in df_raw.iterrows()`
ProcessRow ==
    /\ pc = "loop"
    /\ idx <= Len(rows)
    /\ Collect(rows[idx], try_block(rows[idx]))
    /\ idx' = idx + 1
    /\ UNCHANGED rows
    /\ UNCHANGED tradeVars
    /\ UNCHANGED aggVars

\* df_trades = PortfolioAggregator.prepare_trade_report(valid_results)
PrepareReport ==
    /\ pc = "loop"
    /\ idx > Len(rows)
    /\ df' = prepare_trade_report(valid_results)
    /\ pc' = "totals"
    /\ UNCHANGED <<df_summary, df_by_pair, df_by_ccy>>
    /\ UNCHANGED tradeVars
    /\ UNCHANGED batchVars

Next == ProcessRow \/ PrepareReport \/ Totals \/ ByPair \/ ByCcy

Spec == Init /\ [][Next]_vars

---------------------------------------------------------------------------
(* Properties of the aggregator (SpecAgg) and of the batch (Spec).         *)

SuccessIdx(f) == {i \in 1..Len(f.rows) : f.rows[i].Status = "Success"}

\* the sum of column col over the rows of f with index in I, added as
\* doubles in the order of the rows
RECURSIVE SumOver(_, _, _)
SumOver(f, I, col) ==
    IF I = {} THEN Zero
    ELSE LET i == CHOOSE j \in I : \A o \in I : o <= j
         IN  FAdd(SumOver(f, I \ {i}, col), f.rows[i][col])

TotalsOf(f) ==
    <<[Metric |-> "Total PV (USD)",
       Value  |-> SumOver(f, SuccessIdx(f), "PV_USD")],
      [Metric |-> "Total Delta (USD)",
       Value  |-> SumOver(f, SuccessIdx(f), "Delta_USD")],
      [Metric |-> "Total Vega (USD)",
       Value  |-> SumOver(f, SuccessIdx(f), "Vega_USD")],
      [Metric |-> "Valid Trades", Value |-> Cardinality(SuccessIdx(f))]>>

\* C2: when at least one row has Status "Success", the totals are the sums
\* of PV_USD, Delta_USD and Vega_USD over exactly the Success rows and the
\* count of those rows; the other rows add to nothing.
C2_TotalsOverSuccess ==
    (pc \in {"by_pair", "by_ccy", "done"} /\ df # NoFrame /\ ~IsEmpty(df)
        /\ SuccessIdx(df) # {})
        => df_summary.rows = TotalsOf(df)

C2_Witness ==
    /\ pc = "done"
    /\ Cardinality(SuccessIdx(df)) = 2
    /\ \E i \in 1..Len(df.rows) :
          df.rows[i].Status = "Failed" /\ df.rows[i].PV_USD = Rat(999, 1)
    /\ df_summary.rows[1].Value = Rat(200, 1)
    /\ df_summary.rows[4].Value = 2

SentinelRows == <<[Metric |-> "Status", Value |-> "No Valid Trades"]>>

\* C3: a batch that leaves no valid result (no rows, or every row rejected)
\* gets the "No Valid Trades" indicator row as its summary.
C3_EmptySentinel ==
    (pc \in {"by_pair", "by_ccy", "done"} /\ valid_results = <<>>)
        => df_summary.rows = SentinelRows

KeysOf(f, by) == {f.rows[i][by] : i \in SuccessIdx(f)}

\* g is f grouped by column `by`: one row per key of the Success rows, with
\* the sums over the Success rows of that key
GroupedBy(g, f, by) ==
    /\ Len(g.rows) = Cardinality(KeysOf(f, by))
    /\ {g.rows[j][by] : j \in 1..Len(g.rows)} = KeysOf(f, by)
    /\ \A j \in 1..Len(g.rows) :
          LET I == {i \in SuccessIdx(f) : f.rows[i][by] = g.rows[j][by]}
          IN  /\ g.rows[j].PV_USD = SumOver(f, I, "PV_USD")
              /\ g.rows[j].Delta_USD = SumOver(f, I, "Delta_USD")
              /\ g.rows[j].Vega_USD = SumOver(f, I, "Vega_USD")

HasKeyColumns(f) == {"Status", "Pair", "Currency"} \subseteq f.cols

\* C4: on a non-empty frame with Status, Pair and Currency, each grouping
\* returns exactly one row per key value found among the Success rows, with
\* the sums of the normalized fields over the Success rows of that key.
C4_Groups ==
    (pc = "done" /\ ~IsEmpty(df) /\ HasKeyColumns(df)) =>
        /\ GroupedBy(df_by_pair, df, "Pair")
        /\ GroupedBy(df_by_ccy, df, "Currency")

C4_Witness ==
    /\ pc = "done"
    /\ HasKeyColumns(df)
    /\ Len(df.rows) = 3
    /\ Len(df_by_pair.rows) = 2
    /\ Len(df_by_ccy.rows) = 1
    /\ \E i \in 1..3 : df.rows[i].Status = "Failed"
    /\ df_by_ccy.rows[1].PV_USD = Rat(1099, 1)

SumCols == <<"PV_USD", "Delta_USD", "Vega_USD">>

\* the three views give the same sum of every normalized column: the sum
\* over the rows grouped by pair, the sum over the rows grouped by currency,
\* and the total of the summary
ViewsAgree(summary, by_pair, by_ccy) ==
    \A k \in 1..3 :
        /\ SumCol(by_pair.rows, SumCols[k]) = SumCol(by_ccy.rows, SumCols[k])
        /\ SumCol(by_pair.rows, SumCols[k]) = summary.rows[k].Value

\* the sum in real numbers of column col over the rows of f with index in
\* I: no rounding, and no order
RECURSIVE RealSum(_, _, _)
RealSum(f, I, col) ==
    IF I = {} THEN Zero
    ELSE LET i == CHOOSE j \in I : TRUE
         IN  RAdd(f.rows[i][col], RealSum(f, I \ {i}, col))

RECURSIVE AbsSum(_, _, _)
AbsSum(f, I, col) ==
    IF I = {} THEN Zero
    ELSE LET i == CHOOSE j \in I : TRUE
         IN  RAdd(RAbs(f.rows[i][col]), AbsSum(f, I \ {i}, col))

\* every sum of some of the Success rows' amounts is a double: the
\* magnitudes add up to less than 2^SignificandBits
ExactSums(f) ==
    \A k \in 1..3 :
        RLt(AbsSum(f, SuccessIdx(f), SumCols[k]),
            Rat(Pow2(SignificandBits), 1))

\* C12 as stated: on every non-empty frame with Status, Pair and Currency
\* and at least one Success row, in whatever order its rows come, the sums
\* over the rows of group_risk_by_pair, over the rows of
\* group_risk_by_currency and the totals of calculate_portfolio_totals are
\* equal.
C12_ViewsAgree ==
    (/\ pc = "done"
     /\ ~IsEmpty(df)
     /\ HasKeyColumns(df)
     /\ SuccessIdx(df) # {})
        => ViewsAgree(df_summary, df_by_pair, df_by_ccy)

\* C12 (amended): on such a frame, when every sum of some of the Success
\* rows' amounts is exact in double precision, the three views agree, and
\* their common value is the real sum over the Success rows, which does not
\* depend on the order of the rows.
C12_ViewsAgreeWhenExact ==
    (/\ pc = "done"
     /\ ~IsEmpty(df)
     /\ HasKeyColumns(df)
     /\ SuccessIdx(df) # {}
     /\ ExactSums(df))
        => /\ ViewsAgree(df_summary, df_by_pair, df_by_ccy)
           /\ \A k \in 1..3 :
                 df_summary.rows[k].Value =
                     RealSum(df, SuccessIdx(df), SumCols[k])

\* three Success rows on three pairs and two quote currencies: the
\* groupings differ and the sums agree
C12_Witness ==
    /\ pc = "done"
    /\ HasKeyColumns(df)
    /\ ExactSums(df)
    /\ Cardinality(SuccessIdx(df)) = 3
    /\ Len(df_by_pair.rows) = 3
    /\ Len(df_by_ccy.rows) = 2
    /\ df_summary.rows[1].Value = Rat(1199, 1)
    /\ SumCol(df_by_pair.rows, "PV_USD") = Rat(1199, 1)
    /\ SumCol(df_by_ccy.rows, "PV_USD") = Rat(1199, 1)

\* a row that FXOptionTrade accepts
Acceptable(r) ==
    /\ r.strkeys
    /\ ViolatedFields(r) = {}
    /\ ~CrossViolated(r)

RECURSIVE Accepted(_, _)
Accepted(rs, want) ==
    IF rs = <<>> THEN <<>>
    ELSE (IF Acceptable(Head(rs)) = want THEN <<Head(rs)>> ELSE <<>>)
         \o Accepted(Tail(rs), want)

Processed == IF pc = "loop" THEN SubSeq(rows, 1, idx - 1) ELSE rows

\* C8: no failure on a row aborts the batch; every processed row is in
\* exactly one of valid_results (with Status "Success") and rejected_trades
\* (with an Error), in order, so that after the loop the two lists have as
\* many entries as there were rows; a row that failed validation is never
\* priced.
C8_Partition ==
    /\ pc # "aborted"
    /\ Len(valid_results) + Len(rejected_trades) = Len(Processed)
    /\ Len(valid_results) = Len(Accepted(Processed, TRUE))
    /\ \A i \in 1..Len(valid_results) :
          /\ valid_results[i].TradeID = Accepted(Processed, TRUE)[i].TradeID
          /\ valid_results[i].Status = "Success"
    /\ \A i \in 1..Len(rejected_trades) :
          /\ rejected_trades[i].TradeID = Accepted(Processed, FALSE)[i].TradeID
          /\ rejected_trades[i].Error[1] \in {"Validation", "Pricing", "System Error"}
    /\ \A i \in priced : Acceptable(rows[i])

C8_Witness ==
    /\ pc = "done"
    /\ Len(rows) = 3
    /\ Len(valid_results) = 1
    /\ Len(rejected_trades) = 2
    /\ rejected_trades[1].Error[1] = "System Error"
    /\ rejected_trades[2].Error[1] = "Validation"

=============================================================================
